---- MODULE Spec2Model ----
(***************************************************************************)
(* A model of tic-tac-toe.py: the State class (board codec, terminal       *)
(* evaluation by rotations, move generation), make_tree (graph builder)    *)
(* and minimax (FIFO backward propagation).                                *)
(*                                                                         *)
(* A Python str is modelled as a sequence of one-character strings         *)
(* (1-based: the source's s[v] is s[v + 1] here), a list as a sequence     *)
(* (1-based likewise: the source's r[0][0] is r[1][1] here), a dict with   *)
(* keys 0..8 as a function on 0..8, a defaultdict(list) as a function      *)
(* whose domain holds the keys that have an entry, and the OrderedDict     *)
(* used as a FIFO as the sequence of its keys.                             *)
(***************************************************************************)
EXTENDS Integers, Sequences, FiniteSets, TLC

\* make_tree is run below the positions of the game graph that have at most
\* MaxEmpty empty cells, all of them among the last Window cells.
MaxEmpty == 3
Window == 4

\* State(s) is called on the strings made of at most MaxPrefix symbols followed by one
\* of a few fixed tails (which bring the length up to 7 more)
MaxPrefix == 3

----------------------------------------------------------------------------
(* Python built-ins used by the source *)

\* str.count(c)
count(s, c) == Cardinality({i \in 1..Len(s) : s[i] = c})

\* str.ljust(n, c)
ljust(s, n, c) == IF Len(s) >= n THEN s ELSE s \o [i \in 1..(n - Len(s)) |-> c]

\* list(...) / a list comprehension / "".join(...): the sequence, materialised
list(xs) == xs \o << >>

\* dict(...): the mapping, materialised
dict(f) == f @@ << >>

\* enumerate(s): index -> character, from index 0
enumerate(s) == [i \in 0..(Len(s) - 1) |-> s[i + 1]]

\* list(range(9))
range9 == [v \in 1..9 |-> v - 1]

\* the minimising branch calling max, as the maximising branch does
min_calls_max(xs) == CHOOSE m \in {xs[i] : i \in 1..Len(xs)} : \A i \in 1..Len(xs) : xs[i] <= m

\* max / min of a non-empty list of integers
max(xs) == CHOOSE m \in {xs[i] : i \in 1..Len(xs)} : \A i \in 1..Len(xs) : xs[i] <= m
min(xs) == CHOOSE m \in {xs[i] : i \in 1..Len(xs)} : \A i \in 1..Len(xs) : xs[i] >= m

\* set.add(x): S with x added. (Taking the cardinality makes TLC keep the set sorted,
\* which keeps membership tests on a large set fast; the value is S \cup {x}.)
set_add(S, x) == LET T == S \cup {x} IN IF Cardinality(T) > 0 THEN T ELSE T

\* d[k] of a defaultdict(list), read without creating the entry
get(d, k) == IF k \in DOMAIN d THEN d[k] ELSE <<>>

\* d[k] of a defaultdict(list) evaluated for its side effect: the entry exists afterwards
touch(d, k) == IF k \in DOMAIN d THEN d ELSE (k :> <<>>) @@ d

\* d[k].append(v) on a defaultdict(list)
dd_append(d, k, v) ==
    IF k \in DOMAIN d THEN [d EXCEPT ![k] = Append(@, v)] ELSE (k :> <<v>>) @@ d

\* d[k] = v on a dict
dict_set(d, k, v) == IF k \in DOMAIN d THEN [d EXCEPT ![k] = v] ELSE (k :> v) @@ d

\* od[k] = None on an OrderedDict: a new key goes to the end, a present key keeps its place
od_set(od, k) == IF \E i \in 1..Len(od) : od[i] = k THEN od ELSE Append(od, k)

----------------------------------------------------------------------------
(* class State *)

\* the join taking the cells from the last to the first
to_str_reversed(d) == list([n \in 1..9 |-> d[8 - range9[n]]])

\* State.to_str(d): "".join([d[i] for i in range(9)])
to_str(d) == list([n \in 1..9 |-> d[range9[n]]])

\* State.to_board, from the cell dict: out[j][i] = s[v], i = v % 3, j = v // 3
to_board(s) == list([j \in 1..3 |-> list([i \in 1..3 |-> s[3 * (j - 1) + (i - 1)]])])

\* State.board_to_s(board): the rows joined
board_to_s(board) == list([n \in 1..9 |-> board[((n - 1) \div 3) + 1][((n - 1) % 3) + 1]])

\* the table cw of State.rotate
cw == (0 :> 6) @@ (1 :> 3) @@ (2 :> 0) @@ (3 :> 7) @@ (4 :> 4) @@ (5 :> 1)
      @@ (6 :> 8) @@ (7 :> 5) @@ (8 :> 2)

\* State.rotate(board): out[j][i] = local_s[cw[v]]
rotate(board) ==
    LET local_s == board_to_s(board)
    IN  list([j \in 1..3 |->
                  list([i \in 1..3 |-> local_s[cw[3 * (j - 1) + (i - 1)] + 1]])])

\* State.rotations: the board and its three successive rotations
rotations(board) ==
    LET r1 == rotate(board)
        r2 == rotate(r1)
        r3 == rotate(r2)
    IN  <<board, r1, r2, r3>>

\* one pass of the loop body of check_status: the value returned for rotation r,
\* or "" when no branch returns
check_rotation(r) ==
    IF r[1] = <<"X", "X", "X">> THEN "win"
    ELSE IF r[1] = <<"O", "O", "O">> THEN "loss"
    ELSE IF r[1][1] = "X" /\ r[2][2] = "X" /\ r[3][3] = "X" THEN "win"
    ELSE IF r[1][1] = "O" /\ r[2][2] = "O" /\ r[3][3] = "O" THEN "loss"
    ELSE ""

\* State.check_status, from the board and the key
check_status(board, str) ==
    LET rs   == rotations(board)
        hits == {n \in 1..4 : check_rotation(rs[n]) # ""}
    IN  IF hits # {} THEN check_rotation(rs[CHOOSE n \in hits : \A m \in hits : n <= m])
        ELSE IF count(str, "_") = 0 THEN "tie"
        ELSE "play"

\* State.set_default_value
set_default_value(status, depth, player) ==
    IF status = "tie" THEN 0
    ELSE IF status = "win" THEN 10 - depth
    ELSE IF status = "loss" THEN depth - 10
    ELSE IF player = "X" THEN 0 - 999
    ELSE 999

\* the checks with the symbol check placed before the length check
ValueError_symbols_first(s) ==
    IF {s[i] : i \in 1..Len(s)} \ {"X", "O", "_"} # {} THEN "invalid characters"
    ELSE IF Len(s) > 9 THEN "too many moves"
    ELSE LET move_differences == count(s, "X") - count(s, "O")
         IN  IF move_differences > 1 \/ move_differences < 0 THEN "illegal board state"
             ELSE ""

\* the checks that open State.__init__: the message of the ValueError raised, "" if none
ValueError(s) ==
    IF Len(s) > 9 THEN "too many moves"
    ELSE IF {s[i] : i \in 1..Len(s)} \ {"X", "O", "_"} # {} THEN "invalid characters"
    ELSE LET move_differences == count(s, "X") - count(s, "O")
         IN  IF move_differences > 1 \/ move_differences < 0 THEN "illegal board state"
             ELSE ""

\* the depth taken as twice the number of X marks
depth_twice_X(str) == 2 * count(str, "X")

\* State.__init__ line 62: the number of marks on the board
depth_of(str) == 9 - count(str, "_")

\* State.__init__ line 65: the player to move
player_of(x_moves, o_moves) == IF x_moves = o_moves THEN "X" ELSE "O"

\* State.__init__ once the checks have passed: the object's fields
State(s) ==
    LET x_moves == count(s, "X")
        o_moves == count(s, "O")
        cells   == dict(enumerate(ljust(s, 9, "_")))
        str     == to_str(cells)
        depth   == depth_of(str)
        board   == to_board(cells)
        status  == check_status(board, str)
        player  == player_of(x_moves, o_moves)
    IN  [s |-> cells, str |-> str, depth |-> depth, board |-> board,
         status |-> status, player |-> player,
         value |-> set_default_value(status, depth, player)]

\* make_children looping over range(8): the last cell is never tried
empty_cells_range8(self) == SelectSeq(SubSeq(range9, 1, 8), LAMBDA i : self.s[i] = "_")

\* the cell that the n-th yield of make_children fills: the empty cells in range(9) order
empty_cells(self) == SelectSeq(range9, LAMBDA i : self.s[i] = "_")

\* make_children without ss = self.s.copy(): the marks of the earlier iterations stay
child_arg_no_copy(self, i) ==
    to_str([j \in 0..8 |-> IF j <= i /\ self.s[j] = "_" THEN self.player ELSE self.s[j]])

\* the argument of the State(...) call for cell i in make_children
child_arg(self, i) == to_str([self.s EXCEPT ![i] = self.player])

\* State.make_children, run to its end: the pairs yielded, and the message of the
\* ValueError that ended the generator ("" when it ran to completion)
make_children(self) ==
    IF self.status # "play" THEN [raised |-> "", out |-> <<>>]
    ELSE LET cells == empty_cells(self)
             bad   == {n \in 1..Len(cells) : ValueError(child_arg(self, cells[n])) # ""}
             stop  == IF bad = {} THEN Len(cells) + 1
                      ELSE CHOOSE n \in bad : \A m \in bad : n <= m
         IN  [raised |-> IF bad = {} THEN "" ELSE ValueError(child_arg(self, cells[stop])),
              out    |-> list([n \in 1..(stop - 1) |->
                              <<cells[n], State(child_arg(self, cells[n]))>>])]

----------------------------------------------------------------------------
(* make_tree and minimax, one loop iteration at a time *)

VARIABLES
    root,         \* the key make_tree starts from ("_________" in the source)
    pc,           \* "make_tree": in the while loop of make_tree; "leaves": in the for
                  \* loop of minimax; "minimax": in the while loop of minimax;
                  \* "done": minimax has returned; "raised": an exception ended the run
    raised,       \* the message of the exception, "" if none
    nodes,        \* make_tree's nodes: key -> State object
    parents,      \* defaultdict(list): key -> list of parent keys
    children,     \* defaultdict(list): key -> list of (move, child key)
    leaves,       \* set of keys
    visited,      \* make_tree's visited
    to_visit,     \* make_tree's to_visit (a set of keys)
    leaves_left,  \* minimax: the leaves its for loop has not iterated over yet
    mm_to_visit   \* minimax's to_visit (OrderedDict; the sequence of its keys)

vars == <<root, pc, raised, nodes, parents, children, leaves, visited, to_visit,
          leaves_left, mm_to_visit>>

\* the keys of the children that make_children yields for the position with key k
child_keys(k) ==
    LET ys == make_children(State(k)).out IN {ys[n][2].str : n \in 1..Len(ys)}

\* the keys make_tree holds with at least lo marks, collected depth by depth from
\* the level lv of depth d
RECURSIVE keys_from(_, _, _)
keys_from(lv, d, lo) ==
    IF lv = {} THEN {}
    ELSE (IF d >= lo THEN lv ELSE {})
         \cup keys_from(UNION {child_keys(k) : k \in lv}, d + 1, lo)

\* State() of make_tree's first line: the key of the empty board
EmptyKey == State(<< >>).str

\* the positions of the game graph with at most MaxEmpty empty cells, all of them
\* among the last Window cells
Roots ==
    {k \in keys_from({EmptyKey}, 0, 9 - MaxEmpty) : \A n \in 1..(9 - Window) : k[n] # "_"}

\* the loop body recording an edge only when the child is a new key
RECURSIVE for_children_new_only(_, _, _, _)
for_children_new_only(ys, n, node_key, g) ==
    IF n > Len(ys) THEN g
    ELSE LET move  == ys[n][1]
             child == ys[n][2]
             s     == child.str
         IN  for_children_new_only(ys, n + 1, node_key,
                 IF s \in DOMAIN g.nodes THEN g
                 ELSE [parents  |-> dd_append(g.parents, s, node_key),
                       children |-> dd_append(g.children, node_key, <<move, s>>),
                       nodes    |-> dict_set(g.nodes, s, child)])

\* the loop body with parents[s] = [node_key] in place of parents[s].append(node_key)
RECURSIVE for_children_parent_assigned(_, _, _, _)
for_children_parent_assigned(ys, n, node_key, g) ==
    IF n > Len(ys) THEN g
    ELSE LET move  == ys[n][1]
             child == ys[n][2]
             s     == child.str
         IN  for_children_parent_assigned(ys, n + 1, node_key,
                 [parents  |-> dict_set(g.parents, s, <<node_key>>),
                  children |-> dd_append(g.children, node_key, <<move, s>>),
                  nodes    |-> dict_set(g.nodes, s, child)])

\* the body of `for move, child in node.make_children()`, from the n-th pair on
RECURSIVE for_children(_, _, _, _)
for_children(ys, n, node_key, g) ==
    IF n > Len(ys) THEN g
    ELSE LET move  == ys[n][1]
             child == ys[n][2]
             s     == child.str
         IN  for_children(ys, n + 1, node_key,
                 [parents  |-> dd_append(g.parents, s, node_key),
                  children |-> dd_append(g.children, node_key, <<move, s>>),
                  nodes    |-> dict_set(g.nodes, s, child)])

\* a node with a single child taken for a leaf
is_leaf_le1(i) == i <= 1

\* make_tree line 286: `if i == 0`
is_leaf(i) == i = 0

\* the worklist recomputed without subtracting visited
unexpanded_all_keys(ns, vis) == DOMAIN ns

\* make_tree line 288: nodes.keys() - visited
unexpanded(ns, vis) == DOMAIN ns \ vis

\* one iteration of make_tree's while loop with to_visit.pop() returning node_key
expand(g, node_key) ==
    LET node == g.nodes[node_key]
        gen  == make_children(node)
        h    == for_children(gen.out, 1, node_key,
                    [parents |-> g.parents, children |-> g.children, nodes |-> g.nodes])
        i    == Len(gen.out)
        vis  == set_add(g.visited, node_key)
    IN  [nodes    |-> h.nodes,
         parents  |-> h.parents,
         children |-> h.children,
         visited  |-> vis,
         leaves   |-> IF gen.raised = "" /\ is_leaf(i) THEN set_add(g.leaves, node_key)
                      ELSE g.leaves,
         to_visit |-> IF gen.raised = "" THEN unexpanded(h.nodes, vis)
                      ELSE g.to_visit \ {node_key},
         raised   |-> gen.raised]

\* `for p in parents[k]: to_visit[p] = None`, from the n-th parent on
RECURSIVE for_parents(_, _, _)
for_parents(ps, n, od) ==
    IF n > Len(ps) THEN od ELSE for_parents(ps, n + 1, od_set(od, ps[n]))

\* the for loop enqueueing the leaf itself along with its parents
seed_with_leaf(m, leaf) ==
    [m EXCEPT !.parents = touch(m.parents, leaf),
              !.mm_to_visit = for_parents(get(m.parents, leaf), 1,
                                          od_set(m.mm_to_visit, leaf))]

\* one iteration of minimax's for loop, for the leaf `leaf`
seed(m, leaf) ==
    [m EXCEPT !.parents = touch(m.parents, leaf),
              !.mm_to_visit = for_parents(get(m.parents, leaf), 1, m.mm_to_visit)]

\* the while loop without its lines 315-316: the parents are not enqueued
requeue_none(ps, node_key, od) == od

\* the loop enqueueing the node itself after its parents
requeue_self(ps, node_key, od) == od_set(for_parents(get(ps, node_key), 1, od), node_key)

\* minimax lines 315-316: `for p in parents[node_key]: to_visit[p] = None`
requeue(ps, node_key, od) == for_parents(get(ps, node_key), 1, od)

\* one iteration of minimax's while loop
visit(m) ==
    LET node_key == Head(m.mm_to_visit)
        rest     == Tail(m.mm_to_visit)
        node     == m.nodes[node_key]
        cs       == get(m.children, node_key)
        vals     == list([n \in 1..Len(cs) |-> m.nodes[cs[n][2]].value])
    IN  IF vals = << >>
        THEN [m EXCEPT !.mm_to_visit = rest,
                       !.children = touch(m.children, node_key),
                       !.raised = "arg is an empty sequence"]
        ELSE [m EXCEPT !.nodes[node_key].value =
                           IF node.player = "X" THEN max(vals) ELSE min(vals),
                       !.children = touch(m.children, node_key),
                       !.parents = touch(m.parents, node_key),
                       !.mm_to_visit = requeue(m.parents, node_key, rest)]

\* where control is once make_tree has returned its result to main and minimax begins
after_make_tree(lv) == IF lv = {} THEN "done" ELSE "leaves"

\* where control is once minimax's for loop has ended
after_leaves(od) == IF od = << >> THEN "done" ELSE "minimax"

\* lines 268-274 of make_tree, started at the key r
Start(r) ==
    /\ root = r
    /\ pc = "make_tree"
    /\ raised = ""
    /\ nodes = (r :> State(r))
    /\ parents = << >>
    /\ children = << >>
    /\ leaves = {}
    /\ visited = {}
    /\ to_visit = {r}
    /\ leaves_left = {}
    /\ mm_to_visit = << >>

Init == \E r \in Roots : Start(r)

\* one iteration of make_tree's while loop; when the loop ends make_tree returns
\* and main calls minimax
Expand ==
    /\ pc = "make_tree"
    /\ \E node_key \in to_visit :
         LET h == expand([nodes |-> nodes, parents |-> parents, children |-> children,
                          visited |-> visited, leaves |-> leaves,
                          to_visit |-> to_visit, raised |-> raised], node_key)
         IN  /\ nodes' = h.nodes
             /\ parents' = h.parents
             /\ children' = h.children
             /\ visited' = h.visited
             /\ leaves' = h.leaves
             /\ to_visit' = h.to_visit
             /\ raised' = h.raised
             /\ pc' = IF h.raised # "" THEN "raised"
                      ELSE IF h.to_visit # {} THEN "make_tree"
                      ELSE after_make_tree(h.leaves)
             /\ leaves_left' = IF h.raised = "" /\ h.to_visit = {} THEN h.leaves ELSE {}
    /\ UNCHANGED <<root, mm_to_visit>>

\* one iteration of minimax's `for leaf in leaves`
Leaf ==
    /\ pc = "leaves"
    /\ \E leaf \in leaves_left :
         LET m == seed([parents |-> parents, mm_to_visit |-> mm_to_visit], leaf)
         IN  /\ parents' = m.parents
             /\ mm_to_visit' = m.mm_to_visit
             /\ leaves_left' = leaves_left \ {leaf}
             /\ pc' = IF leaves_left \ {leaf} # {} THEN "leaves"
                      ELSE after_leaves(m.mm_to_visit)
    /\ UNCHANGED <<root, raised, nodes, children, leaves, visited, to_visit>>

\* one iteration of minimax's while loop
Visit ==
    /\ pc = "minimax"
    /\ LET m == visit([nodes |-> nodes, parents |-> parents, children |-> children,
                       mm_to_visit |-> mm_to_visit, raised |-> raised])
       IN  /\ nodes' = m.nodes
           /\ parents' = m.parents
           /\ children' = m.children
           /\ mm_to_visit' = m.mm_to_visit
           /\ raised' = m.raised
           /\ pc' = IF m.raised # "" THEN "raised"
                    ELSE IF m.mm_to_visit # << >> THEN "minimax"
                    ELSE "done"
    /\ UNCHANGED <<root, leaves, visited, to_visit, leaves_left>>

Next == Expand \/ Leaf \/ Visit

Spec == Init /\ [][Next]_vars

\* a loop has an iteration left to run: ENABLED <<Next>>_vars, written out (the while
\* loops run while their to_visit is not empty, the for loop while a leaf is left)
Running ==
    \/ pc = "make_tree" /\ to_visit # {}
    \/ pc = "leaves" /\ leaves_left # {}
    \/ pc = "minimax" /\ mm_to_visit # << >>

\* the same runs, a loop never stopping while it has an iteration left: the program
\* is one thread that nothing suspends. This is WF_vars(Next) with its ENABLED
\* written out as Running.
SpecLive == Spec /\ ([]<>(~Running) \/ []<><<Next>>_vars)

----------------------------------------------------------------------------
(* make_tree and minimax, one call at a time: main() *)

\* the while loop of make_tree from the state g, for at most n more iterations,
\* to_visit.pop() returning at each the key that CHOOSE picks
RECURSIVE while_to_visit(_, _)
while_to_visit(g, n) ==
    IF g.to_visit = {} \/ g.raised # "" THEN g
    ELSE IF n <= 1 THEN expand(g, CHOOSE k \in g.to_visit : TRUE)
    ELSE while_to_visit(while_to_visit(g, n \div 2), n - (n \div 2))

\* make_tree() started at the key r, run to its return; every iteration visits a key
\* not visited before, and there are 3^9 keys
make_tree(r) ==
    while_to_visit([nodes |-> (r :> State(r)), parents |-> << >>, children |-> << >>,
                    visited |-> {}, leaves |-> {}, to_visit |-> {r}, raised |-> ""],
                   3^9)

\* the for loop of minimax from the state m, for at most n more leaves, iterated in
\* the order that CHOOSE picks
RECURSIVE for_leaves(_, _)
for_leaves(m, n) ==
    IF m.leaves_left = {} THEN m
    ELSE IF n <= 1
         THEN LET leaf == CHOOSE k \in m.leaves_left : TRUE
              IN  [seed(m, leaf) EXCEPT !.leaves_left = m.leaves_left \ {leaf}]
    ELSE for_leaves(for_leaves(m, n \div 2), n - (n \div 2))

\* the while loop of minimax from the state m, for at most n more iterations
RECURSIVE while_mm_to_visit(_, _)
while_mm_to_visit(m, n) ==
    IF m.mm_to_visit = << >> \/ m.raised # "" THEN m
    ELSE IF n <= 1 THEN visit(m)
    ELSE while_mm_to_visit(while_mm_to_visit(m, n \div 2), n - (n \div 2))

\* minimax(nodes, children, leaves, parents), run to its return (the while loop is
\* given 2^30 iterations, which it never needs)
minimax(ns, cs, ls, ps) ==
    while_mm_to_visit(
        for_leaves([nodes |-> ns, children |-> cs, parents |-> ps, raised |-> "",
                    leaves_left |-> ls, mm_to_visit |-> << >>], 3^9),
        2^30)

\* main() line 338: res = make_tree()
MakeTree ==
    /\ pc = "make_tree"
    /\ \E g \in {make_tree(root)} :
           /\ nodes' = g.nodes
           /\ parents' = g.parents
           /\ children' = g.children
           /\ visited' = g.visited
           /\ leaves' = g.leaves
           /\ to_visit' = g.to_visit
           /\ raised' = g.raised
           /\ pc' = IF g.raised # "" THEN "raised" ELSE "leaves"
           /\ leaves_left' = IF g.raised = "" THEN g.leaves ELSE {}
    /\ UNCHANGED <<root, mm_to_visit>>

\* main() line 344: minimax(nodes, children, leaves, parents)
Minimax ==
    /\ pc = "leaves"
    /\ \E m \in {minimax(nodes, children, leaves, parents)} :
           /\ nodes' = m.nodes
           /\ parents' = m.parents
           /\ children' = m.children
           /\ mm_to_visit' = m.mm_to_visit
           /\ leaves_left' = m.leaves_left
           /\ raised' = m.raised
           /\ pc' = IF m.raised # "" THEN "raised" ELSE "done"
    /\ UNCHANGED <<root, leaves, visited, to_visit>>

\* main() as the source runs it, from the empty board, and from the positions below it
InitMain == \E r \in Roots \cup {EmptyKey} : Start(r)

NextMain == MakeTree \/ Minimax

SpecMain == InitMain /\ [][NextMain]_vars

----------------------------------------------------------------------------
(* State(s), one call at a time *)

\* the symbols of the strings State is called on; "A" stands for any symbol other
\* than X, O and _ (as in the doctest State("A"))
Alphabet == {"X", "O", "_", "A"}

\* the strings of at most n symbols
RECURSIVE Strings(_)
Strings(n) ==
    IF n = 0 THEN {<< >>}
    ELSE LET shorter == Strings(n - 1)
         IN  shorter \cup {Append(s, c) : s \in {x \in shorter : Len(x) = n - 1},
                                           c \in Alphabet}

\* the tails
Tails == {<< >>,
          <<"_", "_", "_", "_", "_", "_">>,
          <<"_", "_", "_", "_", "_", "_", "_">>,
          <<"X", "O", "X", "O", "X", "O">>,
          <<"O", "X", "O", "X", "O", "X", "_">>,
          <<"O", "X", "O", "O", "X", "O">>}

\* the arguments of the calls
Inputs == {a \o b : a \in Strings(MaxPrefix), b \in Tails}

\* before the call State(root): nothing has been built
InitState ==
    /\ root \in Inputs
    /\ pc = "State"
    /\ raised = ""
    /\ nodes = << >>
    /\ parents = << >>
    /\ children = << >>
    /\ leaves = {}
    /\ visited = {}
    /\ to_visit = {}
    /\ leaves_left = {}
    /\ mm_to_visit = << >>

\* the call State(root): either a ValueError is raised, or the object is built; the
\* object is kept in nodes under its key
Construct ==
    /\ pc = "State"
    /\ raised' = ValueError(root)
    /\ pc' = IF ValueError(root) # "" THEN "raised" ELSE "constructed"
    /\ nodes' = IF ValueError(root) # "" THEN << >>
                ELSE (State(root).str :> State(root))
    /\ UNCHANGED <<root, parents, children, leaves, visited, to_visit, leaves_left,
                   mm_to_visit>>

NextState == Construct

SpecState == InitState /\ [][NextState]_vars

----------------------------------------------------------------------------
(* The rules of tic-tac-toe, stated on keys, for the claims to refer to *)

\* the 8 lines of the board, as positions in the key
Lines == {<<1, 2, 3>>, <<4, 5, 6>>, <<7, 8, 9>>, <<1, 4, 7>>, <<2, 5, 8>>, <<3, 6, 9>>,
          <<1, 5, 9>>, <<3, 5, 7>>}

\* player m holds a complete line in k
HasLine(k, m) == \E l \in Lines : \A n \in 1..3 : k[l[n]] = m

Marks(k) == 9 - count(k, "_")

ToMove(k) == IF count(k, "X") = count(k, "O") THEN "X" ELSE "O"

Successors(k) == {[k EXCEPT ![n] = ToMove(k)] : n \in {m \in 1..9 : k[m] = "_"}}

Highest(S) == CHOOSE v \in S : \A w \in S : w <= v
Lowest(S) == CHOOSE v \in S : \A w \in S : w >= v

\* the value of k under optimal play by both sides
RECURSIVE GameValue(_)
GameValue(k) ==
    IF HasLine(k, "X") THEN 10 - Marks(k)
    ELSE IF HasLine(k, "O") THEN Marks(k) - 10
    ELSE IF Marks(k) = 9 THEN 0
    ELSE IF ToMove(k) = "X" THEN Highest({GameValue(c) : c \in Successors(k)})
    ELSE Lowest({GameValue(c) : c \in Successors(k)})

\* make_tree has returned (and no exception has ended the run)
Built == pc \in {"leaves", "minimax", "done"}

----------------------------------------------------------------------------
(* Claims *)

\* C1: after make_tree and minimax, every node's value is the game-theoretic value of
\* its position under the standard rules. Stated here for the positions in which at
\* most one player holds a line, where that value is beyond dispute.
C1_GameValue ==
    pc = "done" =>
        \A k \in DOMAIN nodes :
            ~(HasLine(k, "X") /\ HasLine(k, "O")) => nodes[k].value = GameValue(k)

\* C2: check_status inspects all 8 lines: 'win' or 'loss' whenever some line is
\* complete, 'tie' only with no line and no empty cell, 'play' only with no line and
\* an empty cell. Stated for the positions make_tree holds.
C2_AllLines ==
    \A k \in DOMAIN nodes :
        LET line == HasLine(k, "X") \/ HasLine(k, "O")
        IN  /\ line => nodes[k].status \in {"win", "loss"}
            /\ nodes[k].status = "tie" => ~line /\ Marks(k) = 9
            /\ nodes[k].status = "play" => ~line /\ Marks(k) < 9

\* C3: after make_tree and minimax, the value of the root node '_________' is 0.
C3_RootValueZero ==
    (pc = "done" /\ root = EmptyKey) => nodes[root].value = 0

\* the legal next moves from k, in ascending order of the cell (0-based, as in the
\* source), by the status and the player that nodes records for k
LegalMoves(k) ==
    IF nodes[k].status # "play" THEN << >>
    ELSE LET free == {n \in 1..9 : k[n] = "_"}
             nth(j) == CHOOSE n \in free : Cardinality({m \in free : m < n}) = j - 1
         IN  [j \in 1..Cardinality(free) |->
                 <<nth(j) - 1, [k EXCEPT ![nth(j)] = nodes[k].player]>>]

\* C4: when make_tree has finished, children[k] lists exactly the legal next moves
\* from k, in ascending order of the cell, and every child key is a key of nodes.
C4_ChildrenAreLegalMoves ==
    Built =>
        \A k \in DOMAIN nodes :
            /\ get(children, k) = LegalMoves(k)
            /\ \A n \in 1..Len(get(children, k)) : get(children, k)[n][2] \in DOMAIN nodes

C4_Witness ==
    /\ Built
    /\ \E k \in DOMAIN nodes : Len(get(children, k)) = 3
    /\ \E k \in DOMAIN nodes : nodes[k].status # "play" /\ Marks(k) < 9

\* C5: when make_tree has finished, a key is in leaves iff its status is not 'play'.
C5_LeavesAreTerminal ==
    Built => leaves = {k \in DOMAIN nodes : nodes[k].status # "play"}

C5_Witness ==
    /\ Built
    /\ \E k \in leaves : nodes[k].status = "win"
    /\ \E k \in leaves : nodes[k].status = "loss"
    /\ \E k \in leaves : nodes[k].status = "tie"
    /\ \E k \in DOMAIN nodes : k \notin leaves

\* C6: whatever key to_visit.pop() returns at each step, make_tree ends with the same
\* graph: the keys of nodes are exactly the positions reachable from the root by
\* make_children steps, and nodes, children, leaves and the parent sets are those of
\* the run in which pop returns the key CHOOSE picks. Stated for the moment make_tree
\* returns.
C6_SameGraphForAllOrders ==
    (Built /\ leaves_left = leaves /\ mm_to_visit = << >>) =>
        LET g == make_tree(root)
        IN  /\ DOMAIN nodes = keys_from({root}, 0, 0)
            /\ nodes = g.nodes
            /\ children = g.children
            /\ leaves = g.leaves
            /\ DOMAIN parents = DOMAIN g.parents
            /\ \A c \in DOMAIN parents :
                   {parents[c][n] : n \in 1..Len(parents[c])}
                       = {g.parents[c][n] : n \in 1..Len(g.parents[c])}

\* two runs that differ in the order of a parent list have both ended
C6_Witness ==
    /\ Built /\ leaves_left = leaves /\ mm_to_visit = << >>
    /\ Cardinality(DOMAIN nodes) >= 10
    /\ parents # make_tree(root).parents

\* C7: along every recorded edge the depth grows by exactly 1 and the player to move
\* alternates; no key has depth above 9.
C7_DepthAlongEdges ==
    /\ \A p \in DOMAIN children :
           \A n \in 1..Len(children[p]) :
               LET c == children[p][n][2]
               IN  /\ nodes[c].depth = nodes[p].depth + 1
                   /\ nodes[c].player # nodes[p].player
    /\ \A k \in DOMAIN nodes : nodes[k].depth <= 9

C7_Witness ==
    /\ Built
    /\ \E p \in DOMAIN children : nodes[p].depth = 6 /\ Len(children[p]) = 3
    /\ \E k \in DOMAIN nodes : nodes[k].depth = 9

\* C8: during make_tree no State construction raises, and every position in nodes has
\* 9 cells drawn from X, O, _ with count(X) - count(O) in {0, 1}.
C8_NoConstructionError ==
    /\ raised \notin {"too many moves", "invalid characters", "illegal board state"}
    /\ \A k \in DOMAIN nodes :
           /\ Len(nodes[k].str) = 9
           /\ \A n \in 1..9 : nodes[k].str[n] \in {"X", "O", "_"}
           /\ count(nodes[k].str, "X") - count(nodes[k].str, "O") \in {0, 1}

C8_Witness ==
    /\ Built
    /\ \E k \in DOMAIN nodes : k # root /\ count(k, "X") - count(k, "O") = 0
    /\ \E k \in DOMAIN nodes : k # root /\ count(k, "X") - count(k, "O") = 1

\* C9: after minimax has finished every node's value lies in -10..10.
C9_ValueRange ==
    pc = "done" => \A k \in DOMAIN nodes : nodes[k].value \in (0 - 10)..10

C9_Witness ==
    /\ pc = "done"
    /\ Marks(root) = 6
    /\ nodes[root].status = "play"
    /\ \E c \in DOMAIN parents : Len(parents[c]) = 2

\* C10: minimax never assigns to a terminal node: no leaf is ever in minimax's queue,
\* max/min is never taken over an empty list, and every terminal node keeps the value
\* set at construction (0, 10 - depth, depth - 10).
C10_TerminalValuesKept ==
    /\ \A n \in 1..Len(mm_to_visit) : mm_to_visit[n] \notin leaves
    /\ raised # "arg is an empty sequence"
    /\ \A k \in DOMAIN nodes :
           /\ nodes[k].status = "tie" => nodes[k].value = 0
           /\ nodes[k].status = "win" => nodes[k].value = 10 - nodes[k].depth
           /\ nodes[k].status = "loss" => nodes[k].value = nodes[k].depth - 10

C10_Witness ==
    /\ pc = "done"
    /\ \E k \in leaves : nodes[k].status = "win" /\ nodes[k].depth < 9
    /\ \E k \in leaves : nodes[k].status = "loss"
    /\ \E k \in leaves : nodes[k].status = "tie"
    /\ nodes[root].status = "play"

\* C11: State(s) fails with 'too many moves' when len(s) > 9, otherwise with 'invalid
\* characters' when s has a symbol outside X, O, _, otherwise with 'illegal board
\* state' when count(X) - count(O) is not 0 or 1; for every other s (the empty and
\* the short ones included) it succeeds and the key is s padded on the right with '_'
\* to exactly 9 cells.
C11_RejectsExactlyMalformed ==
    pc \in {"raised", "constructed"} =>
        LET long    == Len(root) > 9
            symbols == \E n \in 1..Len(root) : root[n] \notin {"X", "O", "_"}
            balance == count(root, "X") - count(root, "O") \notin {0, 1}
        IN  /\ long => raised = "too many moves"
            /\ (~long /\ symbols) => raised = "invalid characters"
            /\ (~long /\ ~symbols /\ balance) => raised = "illegal board state"
            /\ (~long /\ ~symbols /\ ~balance) =>
                   /\ raised = "" /\ pc = "constructed"
                   /\ \E k \in DOMAIN nodes :
                          /\ DOMAIN nodes = {k}
                          /\ nodes[k].str = k
                          /\ Len(k) = 9
                          /\ SubSeq(k, 1, Len(root)) = root
                          /\ \A n \in (Len(root) + 1)..9 : k[n] = "_"

\* a call on a string that is both too long and has a foreign symbol has raised
C11_Witness ==
    /\ pc = "raised"
    /\ Len(root) > 9
    /\ \E n \in 1..Len(root) : root[n] = "A"

\* C12: for every position p that make_tree produces, State(p.str) has the same cells,
\* key, depth, player, status and value as p (the value until minimax assigns one),
\* p is stored under its key, and distinct positions in nodes have distinct keys.
C12_DecodeEncodeRoundTrip ==
    /\ \A k \in DOMAIN nodes :
           LET p == nodes[k]
               q == State(p.str)
           IN  /\ p.str = k
               /\ q.s = p.s /\ q.str = p.str /\ q.depth = p.depth
               /\ q.player = p.player /\ q.status = p.status
               /\ pc \in {"make_tree", "leaves"} => q.value = p.value
    /\ \A k1, k2 \in DOMAIN nodes : nodes[k1].s = nodes[k2].s => k1 = k2

\* make_tree has returned a graph in which some entry of nodes was written twice
C12_Witness ==
    /\ pc = "leaves"
    /\ Cardinality(DOMAIN nodes) >= 10
    /\ \E c \in DOMAIN parents : Len(parents[c]) >= 2

\* C13: State("XOXOXOOXO") succeeds and yields a position with no empty cell, no
\* completed line, status 'tie' and value 0.
C13_ExampleTie ==
    (root = <<"X", "O", "X", "O", "X", "O", "O", "X", "O">> /\ pc # "State") =>
        /\ pc = "constructed"
        /\ raised = ""
        /\ \A k \in DOMAIN nodes :
               /\ count(nodes[k].str, "_") = 0
               /\ ~HasLine(nodes[k].str, "X") /\ ~HasLine(nodes[k].str, "O")
               /\ nodes[k].status = "tie"
               /\ nodes[k].value = 0

\* the value backward induction gives to k over the graph that make_tree recorded:
\* the value set at construction for a key without children, otherwise the max (X to
\* move) or min (O to move) of the children's values
RECURSIVE FinalValue(_)
FinalValue(k) ==
    LET cs == get(children, k)
        vs == {FinalValue(cs[n][2]) : n \in 1..Len(cs)}
    IN  IF cs = << >>
        THEN set_default_value(nodes[k].status, nodes[k].depth, nodes[k].player)
        ELSE IF nodes[k].player = "X" THEN Highest(vs) ELSE Lowest(vs)

\* the node that the next iteration of minimax's while loop pops
NextPopped == Head(mm_to_visit)

\* C14: every time minimax computes a node's value, every child listed in
\* children[node_key] already holds its final value: none holds a placeholder
\* (-999 / 999) and none has a value that a later step changes.
C14_ChildrenFinalWhenComputed ==
    (pc = "minimax" /\ mm_to_visit # << >>) =>
        \A n \in 1..Len(get(children, NextPopped)) :
            LET c == get(children, NextPopped)[n][2]
            IN  /\ nodes[c].value \notin {0 - 999, 999}
                /\ nodes[c].value = FinalValue(c)

\* C15: each non-terminal node's value is written exactly once: a node that is popped
\* has not been assigned before (it still holds the placeholder set at construction),
\* and when minimax has finished every non-terminal node has been assigned.
C15_WrittenExactlyOnce ==
    /\ (pc = "minimax" /\ mm_to_visit # << >>) =>
           nodes[NextPopped].value \in {0 - 999, 999}
    /\ pc = "done" =>
           \A k \in DOMAIN nodes : k \notin leaves => nodes[k].value \notin {0 - 999, 999}

\* C16: when minimax has finished, for every key k with non-empty children[k],
\* nodes[k].value is the max of the children's values if nodes[k].player is 'X' and
\* the min if it is 'O', whatever the order of the leaves and of the parent lists; the
\* values are those of backward induction over the graph.
C16_ConsistentWithChildren ==
    pc = "done" =>
        \A k \in DOMAIN nodes :
            LET cs == get(children, k)
                vs == {nodes[cs[n][2]].value : n \in 1..Len(cs)}
            IN  cs # << >> =>
                    /\ nodes[k].value = IF nodes[k].player = "X" THEN Highest(vs)
                                        ELSE Lowest(vs)
                    /\ nodes[k].value = FinalValue(k)

\* minimax has finished on a graph in which an O node has children of different
\* values and some node is enqueued both by a leaf child and by a processed child
C16_Witness ==
    /\ pc = "done"
    /\ \E k \in DOMAIN nodes :
           /\ nodes[k].player = "O"
           /\ \E a, b \in 1..Len(get(children, k)) :
                  nodes[children[k][a][2]].value # nodes[children[k][b][2]].value
    /\ \E k \in DOMAIN nodes :
           \E a, b \in 1..Len(get(children, k)) :
               children[k][a][2] \in leaves /\ children[k][b][2] \notin leaves

\* C17: no key in nodes has both a line that is all X and a line that is all O, and no
\* position in nodes has a predecessor that already contained a completed line.
C17_NoConflictingLines ==
    \A k \in DOMAIN nodes :
        /\ ~(HasLine(k, "X") /\ HasLine(k, "O"))
        /\ \A n \in 1..Len(get(parents, k)) :
               ~HasLine(parents[k][n], "X") /\ ~HasLine(parents[k][n], "O")

\* C18: make_tree expands every key exactly once and terminates: the key popped is
\* never one already in visited (each iteration adds one new key to visited) although
\* nodes[s] = child overwrites entries of discovered keys, the worklist is always
\* nodes.keys() - visited, it eventually becomes empty, and then visited is the key
\* set of nodes.
C18_MakeTreeTerminates ==
    /\ [][pc = "make_tree" =>
             /\ \E k \in to_visit \ visited : visited' = visited \cup {k}
             /\ Cardinality(visited') = Cardinality(visited) + 1
             /\ DOMAIN nodes \subseteq DOMAIN nodes']_vars
    /\ [](to_visit = DOMAIN nodes \ visited)
    /\ [](pc # "make_tree" => (to_visit = {} /\ visited = DOMAIN nodes))
    /\ <>(pc # "make_tree")

\* make_tree has returned after expanding a key whose entry in nodes was overwritten
\* by a second parent
C18_Witness ==
    /\ pc = "leaves"
    /\ leaves_left = leaves
    /\ visited = DOMAIN nodes
    /\ Cardinality(visited) >= 10
    /\ \E c \in visited : Len(get(parents, c)) >= 2

\* C19: when make_tree has finished, p occurs in parents[c] iff some pair (move, c)
\* occurs in children[p]; parents[c] holds no key twice; the root key has no parents
\* and every other key in nodes has at least one.
C19_ParentsInverseOfChildren ==
    Built =>
        /\ \A p, c \in DOMAIN nodes :
               (\E n \in 1..Len(get(parents, c)) : parents[c][n] = p)
                   <=> (\E n \in 1..Len(get(children, p)) : children[p][n][2] = c)
        /\ \A c \in DOMAIN parents :
               \A a, b \in 1..Len(parents[c]) : parents[c][a] = parents[c][b] => a = b
        /\ get(parents, root) = << >>
        /\ \A k \in DOMAIN nodes : k # root => Len(get(parents, k)) >= 1
        /\ DOMAIN parents \subseteq DOMAIN nodes

\* make_tree has returned a graph in which a key has two different parents
C19_Witness ==
    /\ Built
    /\ \E c \in DOMAIN parents :
           /\ Len(parents[c]) = 2
           /\ parents[c][1] # parents[c][2]
           /\ \A n \in 1..2 : \E j \in 1..Len(get(children, parents[c][n])) :
                  children[parents[c][n]][j][2] = c
    /\ \E k \in DOMAIN nodes : k # root /\ Len(get(parents, k)) = 1

\* C20: minimax terminates on the graph that make_tree produced: from the moment it
\* is called the queue eventually becomes empty and it returns, for every order of
\* the leaves, although processed nodes re-enqueue their parents.
C20_MinimaxTerminates ==
    (pc = "leaves") ~> (pc = "done" /\ mm_to_visit = << >>)

\* minimax is about to pop a node that it has already assigned once
C20_Witness ==
    /\ pc = "minimax"
    /\ mm_to_visit # << >>
    /\ NextPopped \notin leaves
    /\ nodes[NextPopped].value \in (0 - 10)..10
    /\ \E n \in 1..Len(get(children, NextPopped)) :
           children[NextPopped][n][2] \notin leaves

====
